---- MODULE Spec2Model ----
(***************************************************************************)
(* A model of the write-ahead-log key-value store of src/src/node.rs:      *)
(* the frame codec (serialize / deserialize / compute_checksum), the log   *)
(* writer (KVstore::append), recovery (build_kv_store) and the store       *)
(* facade (KVstore::open / get / set / del).  The log file is a sequence   *)
(* of bytes 0..255, frames are encoded byte for byte as the code does, and *)
(* the checksum is the CRC-32 that crc32fast computes.                     *)
(***************************************************************************)
EXTENDS Integers, Sequences, FiniteSets, TLC

\* ------------------------------------------------------------------------
\* Bytes and 32-bit unsigned integers
\*
\* A u32 (total_len, key_len, value_len, the checksum) is kept as the pair
\* <<hi, lo>> of its 16-bit halves, so that values up to 2^32 - 1 and the
\* overflow of their sums are represented exactly.
\* ------------------------------------------------------------------------

Half == 2 ^ 16

\* the u32 of a small natural
U32Of(n) == << n \div Half, n % Half >>

\* the natural of a u32 below 2^31
NatOf(u) == u[1] * Half + u[2]

\* the four bytes in big-endian order
Be32(u) == << u[1] \div 256, u[1] % 256, u[2] \div 256, u[2] % 256 >>

\* u32::to_le_bytes / write_u32::<LittleEndian>
Le32(u) == << u[2] % 256, u[2] \div 256, u[1] % 256, u[1] \div 256 >>

\* u32::from_le_bytes / read_u32::<LittleEndian> on four bytes
FromLe32(b) == << b[3] + 256 * b[4], b[1] + 256 * b[2] >>

\* a + b on u32: the wrapped sum and whether the exact sum left the range
Add32(a, b) ==
    LET lo == a[2] + b[2]
        hi == a[1] + b[1] + (lo \div Half)
    IN  [sum |-> << hi % Half, lo % Half >>, overflow |-> hi >= Half]

\* whether the u32 u is greater than the natural n (n a buffer length)
Exceeds(u, n) == u[1] > n \div Half \/ (u[1] = n \div Half /\ u[2] > n % Half)

\* s[from..to], empty when the range is empty
Slice(s, from, to) == SubSeq(s, from, to)

\* the first n elements of s
Take(s, n) == Slice(s, 1, n)

\* s without its first n elements
Drop(s, n) == Slice(s, n + 1, Len(s))

\* bitwise exclusive or of two naturals
RECURSIVE Xor(_, _)
Xor(a, b) ==
    IF a = 0 THEN b
    ELSE IF b = 0 THEN a
    ELSE ((a + b) % 2) + 2 * Xor(a \div 2, b \div 2)

\* a ^ b on u32
Xor32(a, b) == << Xor(a[1], b[1]), Xor(a[2], b[2]) >>

\* u >> n on u32, for 0 < n < 16
Shr32(u, n) ==
    LET p == 2 ^ n
    IN  << u[1] \div p, (u[2] \div p) + (u[1] % p) * (Half \div p) >>

\* a ^ b on 4-bit and on 8-bit naturals, by a table of the 4-bit results:
\* XorNibbles[a + 1][b + 1] = a ^ b
RECURSIVE XorRow(_, _)
XorRow(a, n) == IF n = 0 THEN << >> ELSE Append(XorRow(a, n - 1), Xor(a, n - 1))

RECURSIVE XorRows(_)
XorRows(n) == IF n = 0 THEN << >> ELSE Append(XorRows(n - 1), XorRow(n - 1, 16))

XorNibbles == XorRows(16)

XorByte(a, b) ==
    16 * XorNibbles[(a \div 16) + 1][(b \div 16) + 1]
    + XorNibbles[(a % 16) + 1][(b % 16) + 1]

\* ------------------------------------------------------------------------
\* CRC-32 (IEEE 802.3, reflected, polynomial 0xEDB88320), as crc32fast
\* ------------------------------------------------------------------------

\* 0xEDB88320
CrcPoly == << 60856, 33568 >>

\* eight shift-and-conditionally-xor rounds on one table index
RECURSIVE CrcRounds(_, _)
CrcRounds(c, n) ==
    IF n = 0 THEN c
    ELSE CrcRounds(IF c[2] % 2 = 1 THEN Xor32(Shr32(c, 1), CrcPoly) ELSE Shr32(c, 1),
                   n - 1)

\* the 256-entry table: entry b + 1 holds the little-endian bytes for index
\* b; built as 16 runs of 16 entries
RECURSIVE CrcEntries(_, _)
CrcEntries(from, n) ==
    IF n = 0 THEN << >>
    ELSE Append(CrcEntries(from, n - 1), Le32(CrcRounds(<< 0, from + n - 1 >>, 8)))

RECURSIVE CrcRuns(_)
CrcRuns(n) ==
    IF n = 0 THEN << >>
    ELSE CrcRuns(n - 1) \o CrcEntries(16 * (n - 1), 16)

CrcTable == CrcRuns(16)

\* Hasher::update over bytes[i..], on the running (inverted) register c, kept
\* as its four little-endian bytes: c = table[(c ^ byte) & 0xFF] ^ (c >> 8).
\* The test on c holds of every register; it makes the register a value at
\* each byte instead of an expression nested once per byte.
RECURSIVE CrcUpdate(_, _, _)
CrcUpdate(c, bytes, i) ==
    IF c[4] < 256 /\ i <= Len(bytes)
    THEN LET t == CrcTable[XorByte(c[1], bytes[i]) + 1]
         IN  CrcUpdate(<< XorByte(t[1], c[2]), XorByte(t[2], c[3]),
                          XorByte(t[3], c[4]), t[4] >>,
                       bytes, i + 1)
    ELSE c

\* Hasher::new (register 0xFFFFFFFF) ... update ... finalize (inverted)
Crc32(bytes) ==
    LET c == CrcUpdate(<< 255, 255, 255, 255 >>, bytes, 1)
    IN  FromLe32(<< 255 - c[1], 255 - c[2], 255 - c[3], 255 - c[4] >>)

\* ------------------------------------------------------------------------
\* Errors, encodings, frames and values
\* ------------------------------------------------------------------------

\* enum KVerror; "Ok" is the Ok(..) of a Result and "Panic" the unwinding of
\* the thread, which is no KVerror
KVerror == {"Startup", "IO", "CorruptLog", "NotFound", "Encoding"}

\* every byte is taken for a known tag
from_u8Any(b) == [status |-> "Ok", encoding |-> b]

\* Encoding::from_u8: the tag of a known encoding byte, else Err(Encoding)
from_u8(b) ==
    IF b \in {0, 1, 2} THEN [status |-> "Ok", encoding |-> b]
    ELSE [status |-> "Encoding", encoding |-> b]

\* struct Frame
Frame(total_len, magic, version, operation, encoding, key_bytes, value_bytes, key_len, value_len) ==
    [total_len |-> total_len, magic |-> magic, version |-> version,
     operation |-> operation, encoding |-> encoding,
     key_len |-> key_len, value_len |-> value_len,
     key_bytes |-> key_bytes, value_bytes |-> value_bytes]

\* struct Value
Value(encoding, bytes) == [encoding |-> encoding, bytes |-> bytes]

\* Frame::new_set
new_set(key, value, magic, version) ==
    Frame(U32Of(0), magic, version, 1, value.encoding, key, value.bytes,
          U32Of(Len(key)), U32Of(Len(value.bytes)))

\* Frame::new_delete
new_delete(key, magic, version) ==
    Frame(U32Of(0), magic, version, 2, 0, key, << >>, U32Of(Len(key)), U32Of(0))

\* the encoding byte is left out of the checksum
compute_checksumNoEncoding(frame) ==
    Crc32(<< frame.magic, frame.version, frame.operation >>
          \o Le32(frame.key_len) \o Le32(frame.value_len)
          \o frame.key_bytes \o frame.value_bytes)

\* compute_checksum: CRC-32 over every field but total_len, in frame order
compute_checksum(frame) ==
    Crc32(<< frame.magic, frame.version, frame.operation, frame.encoding >>
          \o Le32(frame.key_len) \o Le32(frame.value_len)
          \o frame.key_bytes \o frame.value_bytes)

\* 1 + 1 + 1 + 1 + 4 + 4 + key_len + value_len + 4 in u32 arithmetic: the
\* wrapped sum, and whether one of the additions overflowed
FrameLen(key_len, value_len) ==
    LET a == Add32(U32Of(1 + 1 + 1 + 1 + 4 + 4), key_len)
        b == Add32(a.sum, value_len)
        c == Add32(b.sum, U32Of(4))
    IN  [sum |-> c.sum, overflow |-> a.overflow \/ b.overflow \/ c.overflow]

\* total_len leaves out the 4 bytes of the checksum
serializeShort(frame) ==
    Le32(Add32(Add32(U32Of(1 + 1 + 1 + 1 + 4 + 4), frame.key_len).sum,
               frame.value_len).sum)
    \o << frame.magic, frame.version, frame.operation, frame.encoding >>
    \o Le32(frame.key_len) \o Le32(frame.value_len)
    \o frame.key_bytes \o frame.value_bytes
    \o Le32(compute_checksum(frame))

\* serialize: total_len, then the body, then the checksum, little-endian
serialize(frame) ==
    Le32(FrameLen(frame.key_len, frame.value_len).sum)
    \o << frame.magic, frame.version, frame.operation, frame.encoding >>
    \o Le32(frame.key_len) \o Le32(frame.value_len)
    \o frame.key_bytes \o frame.value_bytes
    \o Le32(compute_checksum(frame))

\* ------------------------------------------------------------------------
\* deserialize
\* ------------------------------------------------------------------------

NoFrame == Frame(U32Of(0), 0, 0, 0, 0, << >>, << >>, U32Of(0), U32Of(0))

\* the result of deserialize: status is Ok, CorruptLog or Panic; stage names
\* the step that ended it; payload is the number of key and value bytes the
\* cursor had read by then, summed is whether compute_checksum was called
DecodeResult(status, stage, frame, payload, summed) ==
    [status |-> status, stage |-> stage, frame |-> frame,
     payload |-> payload, summed |-> summed]

\* deserialize(total_len, bytes); overflow_checks is the build's setting for
\* the arithmetic of expected_len (on: panic, off: wrap)
deserialize(total_len, bytes, overflow_checks) ==
    IF Len(bytes) < 12
    THEN DecodeResult("CorruptLog", "header", NoFrame, 0, FALSE)
    ELSE
    LET magic == bytes[1]
        version == bytes[2]
        operation == bytes[3]
        encoding == bytes[4]
        key_len == FromLe32(Slice(bytes, 5, 8))
        value_len == FromLe32(Slice(bytes, 9, 12))
        expected_len == FrameLen(key_len, value_len)
    IN
    IF expected_len.overflow /\ overflow_checks
    THEN DecodeResult("Panic", "expected_len", NoFrame, 0, FALSE)
    ELSE IF total_len # expected_len.sum
    THEN DecodeResult("CorruptLog", "length", NoFrame, 0, FALSE)
    ELSE IF Exceeds(key_len, Len(bytes) - 12)
    THEN DecodeResult("CorruptLog", "key", NoFrame, 0, FALSE)
    ELSE
    LET kl == NatOf(key_len)
        key_bytes == Slice(bytes, 13, 12 + kl)
    IN
    IF Exceeds(value_len, Len(bytes) - 12 - kl)
    THEN DecodeResult("CorruptLog", "value", NoFrame, kl, FALSE)
    ELSE
    LET vl == NatOf(value_len)
        value_bytes == Slice(bytes, 13 + kl, 12 + kl + vl)
    IN
    IF Len(bytes) - 12 - kl - vl < 4
    THEN DecodeResult("CorruptLog", "checksum_read", NoFrame, kl + vl, FALSE)
    ELSE
    LET original_checksum == FromLe32(Slice(bytes, 13 + kl + vl, 16 + kl + vl))
        frame == Frame(total_len, magic, version, operation, encoding,
                       key_bytes, value_bytes, key_len, value_len)
        computed == compute_checksum(frame)
    IN
    IF computed # original_checksum
    THEN DecodeResult("CorruptLog", "checksum", NoFrame, kl + vl, TRUE)
    ELSE DecodeResult("Ok", "done", frame, kl + vl, TRUE)

\* ------------------------------------------------------------------------
\* String::from_utf8: whether a byte sequence is well-formed UTF-8
\* ------------------------------------------------------------------------

Cont(b) == b >= 128 /\ b <= 191

RECURSIVE IsUtf8From(_, _)
IsUtf8From(b, i) ==
    LET n == Len(b) - i + 1
    IN
    IF n <= 0 THEN TRUE
    ELSE IF b[i] < 128 THEN IsUtf8From(b, i + 1)
    ELSE IF b[i] >= 194 /\ b[i] <= 223
    THEN n >= 2 /\ Cont(b[i + 1]) /\ IsUtf8From(b, i + 2)
    ELSE IF b[i] >= 224 /\ b[i] <= 239
    THEN /\ n >= 3
         /\ Cont(b[i + 1]) /\ Cont(b[i + 2])
         /\ (b[i] = 224 => b[i + 1] >= 160)
         /\ (b[i] = 237 => b[i + 1] <= 159)
         /\ IsUtf8From(b, i + 3)
    ELSE IF b[i] >= 240 /\ b[i] <= 244
    THEN /\ n >= 4
         /\ Cont(b[i + 1]) /\ Cont(b[i + 2]) /\ Cont(b[i + 3])
         /\ (b[i] = 240 => b[i + 1] >= 144)
         /\ (b[i] = 244 => b[i + 1] <= 143)
         /\ IsUtf8From(b, i + 4)
    ELSE FALSE

from_utf8_ok(b) == IsUtf8From(b, 1)

\* ------------------------------------------------------------------------
\* The in-memory map (HashMap<String, Value>): a function on the present keys
\* ------------------------------------------------------------------------

EmptyMap == << >>

\* HashMap::insert
MapInsert(m, k, v) == [x \in DOMAIN m \cup {k} |-> IF x = k THEN v ELSE m[x]]

\* the key is left in the map
MapRemoveKeeps(m, k) == m

\* HashMap::remove
MapRemove(m, k) == [x \in DOMAIN m \ {k} |-> m[x]]

\* ------------------------------------------------------------------------
\* build_kv_store: replay of the log
\* ------------------------------------------------------------------------

\* what the replay loop ends with: status Ok stands for Ok(store); any other
\* status is the error (or panic) that ended it.  map is the local store.map
\* at that point (returned on Ok, dropped on an error), pos the number of
\* bytes consumed, frames the number of frames applied, io whether a read of
\* the file failed with an I/O error.
ReplayResult(status, m, pos, frames, io) ==
    [status |-> status, map |-> m, pos |-> pos, frames |-> frames, io |-> io]

\* the error of a frame body that cannot be read in full:
\* read_exact(&mut frame_buf).map_err(|_| KVerror::CorruptLog)
BodyReadErrorIO == "IO"
BodyReadError == "CorruptLog"

\* leftover bytes that are no whole total_len are taken for corruption
EndOfLogStrict(rem) == IF rem = 0 THEN "Ok" ELSE "CorruptLog"

\* how the loop ends when read_exact(&mut len_buf) finds rem < 4 bytes left:
\* `break`, and Ok(store) after the loop
EndOfLog(rem) == "Ok"

\* The loop of build_kv_store from offset pos with map m.  reads counts the
\* read_exact calls made so far; fail_at is the call on which the file read
\* fails with an I/O error (0: none fails).
RECURSIVE ReplayFrom(_, _, _, _, _, _, _)
ReplayFrom(bytes, pos, m, frames, reads, fail_at, overflow_checks) ==
    LET rem == Len(bytes) - pos
    IN
    \* reader.read_exact(&mut len_buf).is_err() => break
    IF fail_at = reads + 1
    THEN ReplayResult("Ok", m, pos, frames, TRUE)
    ELSE IF rem < 4
    THEN ReplayResult(EndOfLog(rem), m, pos, frames, FALSE)
    ELSE
    LET total_len == FromLe32(Slice(bytes, pos + 1, pos + 4))
    IN
    \* reader.read_exact(&mut frame_buf).map_err(|_| CorruptLog)?
    IF fail_at = reads + 2
    THEN ReplayResult(BodyReadError, m, pos + 4, frames, TRUE)
    ELSE IF Exceeds(total_len, rem - 4)
    THEN ReplayResult(BodyReadError, m, pos + 4, frames, FALSE)
    ELSE
    LET tl == NatOf(total_len)
        frame_buf == Slice(bytes, pos + 5, pos + 4 + tl)
        d == deserialize(total_len, frame_buf, overflow_checks)
        next == pos + 4 + tl
    IN
    IF d.status # "Ok"
    THEN ReplayResult(d.status, m, next, frames, FALSE)
    ELSE IF d.frame.operation = 1
    THEN IF ~from_utf8_ok(d.frame.key_bytes)
         THEN ReplayResult("CorruptLog", m, next, frames, FALSE)
         ELSE IF from_u8(d.frame.encoding).status # "Ok"
         THEN ReplayResult("Encoding", m, next, frames, FALSE)
         ELSE ReplayFrom(bytes, next,
                         MapInsert(m, d.frame.key_bytes,
                                   Value(d.frame.encoding, d.frame.value_bytes)),
                         frames + 1, reads + 2, fail_at, overflow_checks)
    ELSE IF d.frame.operation = 2
    THEN IF ~from_utf8_ok(d.frame.key_bytes)
         THEN ReplayResult("CorruptLog", m, next, frames, FALSE)
         ELSE ReplayFrom(bytes, next, MapRemove(m, d.frame.key_bytes),
                         frames + 1, reads + 2, fail_at, overflow_checks)
    ELSE ReplayResult("CorruptLog", m, next, frames, FALSE)

\* build_kv_store(log_file, ..): replay from the start with an empty map
build_kv_store(bytes, fail_at, overflow_checks) ==
    ReplayFrom(bytes, 0, EmptyMap, 0, 0, fail_at, overflow_checks)

\* replay of a log when no read fails; the same result in both builds unless
\* it is a panic
Replay(bytes) == build_kv_store(bytes, 0, FALSE)

\* ------------------------------------------------------------------------
\* KVstore::append: the bytes the file holds after write_all wrote the first
\* `written` bytes of value; Ok when that is all of them, else Err(IO).
\* written = 0 with Err(IO) is also what a failed OpenOptions::open leaves.
\* ------------------------------------------------------------------------

\* the file is opened with truncate instead of append
appendTruncating(log, value, written) ==
    [status |-> IF written = Len(value) THEN "Ok" ELSE "IO",
     log |-> Take(value, written)]

append(log, value, written) ==
    [status |-> IF written = Len(value) THEN "Ok" ELSE "IO",
     log |-> log \o Take(value, written)]

\* KVstore::get
get(m, key) ==
    IF key \in DOMAIN m THEN [status |-> "Ok", value |-> m[key]]
    ELSE [status |-> "NotFound", value |-> Value(0, << >>)]

\* ------------------------------------------------------------------------
\* Bounds and inputs
\* ------------------------------------------------------------------------

\* set/del calls made on the log over a run
MaxAppends == 2

\* the latest read_exact call of a replay on which an I/O error is injected
MaxFailAt == 3

\* file operations that fail with an I/O error over a run
MaxFaults == 1

KeyA == << 97 >>
KeyB == << 98 >>
Keys == {KeyA, KeyB}

V1 == Value(0, << 120 >>)
V2 == Value(1, << 7 >>)
V3 == Value(2, << >>)

\* the values set() is called with
Values == {V1, V2}

\* the (magic, version) pair main.rs opens the store with: (0xAA, 0x01)
MainIdentity == << 170, 1 >>

\* the (magic, version) pairs open() is called with
Identities == {MainIdentity}

\* a logical mutation held by the log as one whole frame
SetOp(k, v) == [operation |-> 1, key |-> k, value |-> v]
DelOp(k) == [operation |-> 2, key |-> k, value |-> Value(0, << >>)]

\* the frame set()/del() of a store with identity id writes for a mutation
EncodeOp(o, id) ==
    IF o.operation = 1
    THEN serialize(new_set(o.key, o.value, id[1], id[2]))
    ELSE serialize(new_delete(o.key, id[1], id[2]))

RECURSIVE EncodeOps(_, _)
EncodeOps(ops, id) ==
    IF ops = << >> THEN << >>
    ELSE EncodeOp(Head(ops), id) \o EncodeOps(Tail(ops), id)

\* the number of bytes of the frame of a key and a value of these lengths
FrameBytes(key_len, value_len) == 4 + 12 + key_len + value_len + 4

\* the prefixes of a frame that a failed write_all is taken to leave behind:
\* nothing, part of total_len, all but the last byte
PartialWrites(n) == {0, 3, n - 1}

\* ------------------------------------------------------------------------
\* Log files found at start-up
\* ------------------------------------------------------------------------

SampleFrame == EncodeOp(SetOp(KeyB, V1), MainIdentity)

\* a frame whose stored checksum has one byte changed
BadChecksumFrame ==
    [SampleFrame EXCEPT ![Len(SampleFrame)] = (@ + 1) % 256]

\* frames with a valid checksum that replay rejects after decoding
BadOperationFrame ==
    serialize(Frame(U32Of(0), 170, 1, 3, 0, KeyB, << 120 >>, U32Of(1), U32Of(1)))
BadEncodingFrame == serialize(new_set(KeyB, Value(7, << 120 >>), 170, 1))
BadUtf8Frame == serialize(new_set(<< 255 >>, V1, 170, 1))

\* total_len = 15, key_len = 0xFFFFFFFF, value_len = 0, three more bytes:
\* 12 + key_len + value_len + 4 leaves the u32 range and wraps to 15
OverflowFrame ==
    << 15, 0, 0, 0 >> \o << 170, 1, 1, 0 >> \o << 255, 255, 255, 255 >>
    \o << 0, 0, 0, 0 >> \o << 98, 0, 0 >>

ZeroLenFrame == << 0, 0, 0, 0 >>
HugeLenFrame == << 255, 255, 255, 255 >> \o << 170, 1, 1, 0 >>

\* what may follow the whole frames of a log found at start-up
Tails ==
    { << >>,
      << 0 >>, Take(SampleFrame, 3),
      Take(SampleFrame, 4), Take(SampleFrame, 10),
      Take(SampleFrame, Len(SampleFrame) - 1),
      BadChecksumFrame, BadOperationFrame, BadEncodingFrame, BadUtf8Frame,
      OverflowFrame, ZeroLenFrame, HugeLenFrame }

\* the example of last-writer-wins: Set(k,v1), Set(k,v2), Delete(k), Set(k,v3)
ExampleOps == << SetOp(KeyA, V1), SetOp(KeyA, V2), DelOp(KeyA), SetOp(KeyA, V3) >>

\* the whole frames that precede a tail
BaseOps == << SetOp(KeyA, V2) >>

\* the logs found at start-up, as the mutations of their whole frames and
\* the bytes that follow them
InitLogs ==
    {[ops |-> o, tail |-> << >>] : o \in {<< >>, ExampleOps}}
    \cup {[ops |-> BaseOps, tail |-> t] : t \in Tails}

\* ------------------------------------------------------------------------
\* State
\* ------------------------------------------------------------------------

VARIABLES
    fileExists, \* whether the log path names a file
    disk,       \* the bytes of the log file
    opened,     \* whether the process holds a KVstore
    map,        \* KVstore.map
    identity,   \* << KVstore.magic, KVstore.version >>
    last,       \* the last call and what it returned
    hist,       \* history: the mutations written to the log as whole frames
    junk,       \* history: the log also holds bytes that are no whole frame
    appends,    \* number of set/del calls made
    faults,     \* number of file operations that failed
    codec       \* the frame codec and the replay applied to one input

vars ==
    << fileExists, disk, opened, map, identity, last, hist, junk, appends, faults,
       codec >>

NoKey == << >>
NoValue == Value(0, << >>)
NoIdentity == << 0, 0 >>

\* no call of deserialize or of build_kv_store was made
NoDecode == DecodeResult("none", "none", NoFrame, 0, FALSE)
NoReplay == ReplayResult("none", EmptyMap, 0, 0, FALSE)

\* the codec at rest: no input was built
CodecIdle ==
    [stage |-> "idle", origin |-> "none", frame |-> NoFrame, bytes |-> << >>,
     at |-> 0, decoded |-> NoDecode, replayed |-> NoReplay]

\* a call, its arguments, the status it returned, the value get returned and
\* whether a file operation of the call failed with an I/O error
Call(op, key, value, res, out, io) ==
    [op |-> op, key |-> key, value |-> value, res |-> res, out |-> out, io |-> io]

Init ==
    /\ \/ /\ fileExists = FALSE
          /\ disk = << >>
          /\ hist = << >>
          /\ junk = FALSE
       \/ /\ fileExists = TRUE
          /\ \E log \in InitLogs :
                /\ disk = EncodeOps(log.ops, MainIdentity) \o log.tail
                /\ hist = log.ops
                /\ junk = (log.tail # << >>)
    /\ opened = FALSE
    /\ map = EmptyMap
    /\ identity = NoIdentity
    /\ last = Call("none", NoKey, NoValue, "Ok", NoValue, FALSE)
    /\ appends = 0
    /\ faults = 0
    /\ codec = CodecIdle

\* ------------------------------------------------------------------------
\* Operations.  Each operation is one action when the file system does what
\* it is asked, and one (named ...Fault) when a file operation of the call
\* fails with an I/O error.
\* ------------------------------------------------------------------------

\* what open returns for an existing file: Err(IO) when File::open fails,
\* else what build_kv_store returns
OpenResult(bytes, fs_fail, fail_at, overflow_checks) ==
    IF fs_fail THEN ReplayResult("IO", EmptyMap, 0, 0, TRUE)
    ELSE build_kv_store(bytes, fail_at, overflow_checks)

\* a store is returned although the replay failed, with what it had decoded
OpenedPartial(id, r) ==
    /\ opened' = TRUE
    /\ map' = r.map
    /\ identity' = id
    /\ last' = Call("open", NoKey, NoValue, r.status, NoValue, r.io)
    /\ faults' = IF r.io THEN faults + 1 ELSE faults
    /\ UNCHANGED << disk, hist, junk, appends, codec >>

\* KVstore::open, from `if path.exists()` on, given what the file operations
\* returned: the store is returned on Ok, and `?` drops it on an error
Opened(id, r) ==
    /\ opened' = (r.status = "Ok")
    /\ map' = IF r.status = "Ok" THEN r.map ELSE EmptyMap
    /\ identity' = IF r.status = "Ok" THEN id ELSE NoIdentity
    /\ last' = Call("open", NoKey, NoValue, r.status, NoValue, r.io)
    /\ faults' = IF r.io THEN faults + 1 ELSE faults
    /\ UNCHANGED << disk, hist, junk, appends, codec >>

\* open with a validation pass: the (magic, version) stored in the first
\* frame of the log must be the pair passed to open
OpenExistingChecked(id, overflow_checks) ==
    /\ ~opened
    /\ fileExists
    /\ IF Len(disk) >= 6 /\ << disk[5], disk[6] >> # id
       THEN Opened(id, ReplayResult("CorruptLog", EmptyMap, 0, 0, FALSE))
       ELSE Opened(id, OpenResult(disk, FALSE, 0, overflow_checks))
    /\ UNCHANGED fileExists

\* KVstore::open on a path that exists: File::open, then build_kv_store
OpenExisting(id, overflow_checks) ==
    /\ ~opened
    /\ fileExists
    /\ Opened(id, OpenResult(disk, FALSE, 0, overflow_checks))
    /\ UNCHANGED fileExists

\* KVstore::open on a path that exists when File::open fails (fs_fail) or
\* the fail_at-th read_exact of the replay does
OpenExistingFault(id, fs_fail, fail_at, overflow_checks) ==
    /\ ~opened
    /\ fileExists
    /\ faults < MaxFaults
    /\ fs_fail = (fail_at = 0)
    /\ LET r == OpenResult(disk, fs_fail, fail_at, overflow_checks)
       IN  /\ r.io
           /\ Opened(id, r)
    /\ UNCHANGED fileExists

\* the file is not created
OpenCreateNoFile(id) ==
    /\ ~opened
    /\ ~fileExists
    /\ fileExists' = FALSE
    /\ Opened(id, ReplayResult("Ok", EmptyMap, 0, 0, FALSE))

\* KVstore::open on a path that does not exist: File::create
OpenCreate(id) ==
    /\ ~opened
    /\ ~fileExists
    /\ fileExists' = TRUE
    /\ Opened(id, ReplayResult("Ok", EmptyMap, 0, 0, FALSE))

\* KVstore::open on a path that does not exist when File::create fails
OpenCreateFault(id) ==
    /\ ~opened
    /\ ~fileExists
    /\ faults < MaxFaults
    /\ fileExists' = FALSE
    /\ Opened(id, ReplayResult("IO", EmptyMap, 0, 0, TRUE))

\* KVstore::get
Get(key) ==
    /\ opened
    /\ last' = Call("get", key, NoValue, get(map, key).status,
                    get(map, key).value, FALSE)
    /\ UNCHANGED << fileExists, disk, opened, map, identity, hist, junk,
                    appends, faults, codec >>

\* the part of set and del after serialize: append, and only on Ok the
\* update of the map; written is the number of bytes write_all got written
Mutate(serialized, op, call_op, new_map, written) ==
    LET a == append(disk, serialized, written)
        ok == a.status = "Ok"
    IN  /\ disk' = a.log
        /\ map' = IF ok THEN new_map ELSE map
        /\ last' = Call(call_op, op.key, op.value, a.status, NoValue, ~ok)
        /\ hist' = IF ok THEN Append(hist, op) ELSE hist
        /\ junk' = (junk \/ (~ok /\ written > 0))
        /\ faults' = IF ok THEN faults ELSE faults + 1
        /\ appends' = appends + 1
        /\ UNCHANGED << fileExists, opened, identity, codec >>

\* KVstore::set: serialize, append, and only on Ok insert into the map
SetWrites(key, value, written) ==
    Mutate(serialize(new_set(key, value, identity[1], identity[2])),
           SetOp(key, value), "set", MapInsert(map, key, value), written)

Set(key, value) ==
    /\ opened
    /\ appends < MaxAppends
    /\ SetWrites(key, value, FrameBytes(Len(key), Len(value.bytes)))

\* KVstore::set when the append fails after `written` bytes
SetFault(key, value, written) ==
    /\ opened
    /\ appends < MaxAppends
    /\ faults < MaxFaults
    /\ written < FrameBytes(Len(key), Len(value.bytes))
    /\ SetWrites(key, value, written)

\* del with a lookup first: an absent key returns NotFound and appends nothing
DelWritesChecked(key, written) ==
    IF key \in DOMAIN map
    THEN Mutate(serialize(new_delete(key, identity[1], identity[2])),
                DelOp(key), "del", MapRemove(map, key), written)
    ELSE /\ last' = Call("del", key, NoValue, "NotFound", NoValue, FALSE)
         /\ appends' = appends + 1
         /\ UNCHANGED << fileExists, disk, opened, map, identity, hist, junk, faults, codec >>

\* KVstore::del: serialize, append, and only on Ok remove from the map
DelWrites(key, written) ==
    Mutate(serialize(new_delete(key, identity[1], identity[2])),
           DelOp(key), "del", MapRemove(map, key), written)

Del(key) ==
    /\ opened
    /\ appends < MaxAppends
    /\ DelWrites(key, FrameBytes(Len(key), 0))

\* KVstore::del when the append fails after `written` bytes
DelFault(key, written) ==
    /\ opened
    /\ appends < MaxAppends
    /\ faults < MaxFaults
    /\ written < FrameBytes(Len(key), 0)
    /\ DelWrites(key, written)

\* the process ends (main returns, or is killed): the KVstore is dropped and
\* the log file stays
Exit ==
    /\ opened
    /\ opened' = FALSE
    /\ map' = EmptyMap
    /\ identity' = NoIdentity
    /\ last' = Call("exit", NoKey, NoValue, "Ok", NoValue, FALSE)
    /\ UNCHANGED << fileExists, disk, hist, junk, appends, faults, codec >>

\* the operations when no file operation fails
Next ==
    \/ \E id \in Identities, overflow_checks \in BOOLEAN :
            OpenExisting(id, overflow_checks)
    \/ \E id \in Identities : OpenCreate(id)
    \/ \E key \in Keys : Get(key)
    \/ \E key \in Keys, value \in Values : Set(key, value)
    \/ \E key \in Keys : Del(key)
    \/ Exit

\* the operations when a file operation fails
Faults ==
    \/ \E id \in Identities, fs_fail \in BOOLEAN, fail_at \in 0..MaxFailAt,
          overflow_checks \in BOOLEAN :
            OpenExistingFault(id, fs_fail, fail_at, overflow_checks)
    \/ \E id \in Identities : OpenCreateFault(id)
    \/ \E key \in Keys, value \in Values :
          \E written \in PartialWrites(FrameBytes(Len(key), Len(value.bytes))) :
            SetFault(key, value, written)
    \/ \E key \in Keys :
          \E written \in PartialWrites(FrameBytes(Len(key), 0)) :
            DelFault(key, written)

NextFaults == Next \/ Faults

\* the store when every file operation succeeds
Spec == Init /\ [][Next]_vars

\* the store when file operations may fail with I/O errors
SpecFaults == Init /\ [][NextFaults]_vars

\* another (magic, version) pair a caller may pass to open
OtherIdentity == << 187, 2 >>
OpenIdentities == {MainIdentity, OtherIdentity}

\* the operations when open is called with either pair, so that a log may be
\* opened under another pair than the one its frames were written under
NextIdentity ==
    \/ \E id \in OpenIdentities, overflow_checks \in BOOLEAN :
            OpenExisting(id, overflow_checks)
    \/ \E id \in OpenIdentities : OpenCreate(id)
    \/ \E key \in Keys : Get(key)
    \/ \E key \in Keys, value \in Values : Set(key, value)
    \/ \E key \in Keys : Del(key)
    \/ Exit

SpecIdentity == Init /\ [][NextIdentity]_vars

\* ------------------------------------------------------------------------
\* The frame codec on its own: an input is built (a frame encoded from a
\* mutation, then possibly one bit of it flipped) and deserialize is applied
\* to it, as build_kv_store does with the bytes of one frame.
\* ------------------------------------------------------------------------

\* keys (&str, so well-formed UTF-8): "", "a", "é", "ab"
CodecKeys == {<< >>, KeyA, << 195, 169 >>, << 97, 98 >>}

\* values: each Encoding, payloads of 0, 1 and 2 bytes
CodecValues ==
    {Value(0, << >>), Value(0, << 120 >>), Value(1, << 7, 0 >>), Value(2, << 255 >>)}

\* (magic, version) pairs
CodecIdentities == {MainIdentity, << 0, 255 >>}

\* the operation, encoding and key bytes of frames written by other hands:
\* an unknown operation, unknown encoding tags, a key that is not UTF-8
CraftOperations == {1, 2, 3}
CraftEncodings == {0, 2, 3, 255}
CraftKeys == {KeyA, << 255 >>}
CraftValues == {<< >>, << 120 >>}

\* key_len and value_len fields as a corrupt or hostile log may hold them:
\* small ones, 0xFFFFFFFE and 0xFFFFFFFF
ForgedLens ==
    {U32Of(0), U32Of(1), U32Of(2), U32Of(3), << 65535, 65534 >>, << 65535, 65535 >>}

\* the whole frames that precede the input in a replayed log
CodecLogOps == << SetOp(KeyA, V2), SetOp(KeyB, V1) >>
CodecLog == EncodeOps(CodecLogOps, MainIdentity)

\* the positions in an encoded frame of the fields that follow total_len
BodyPositions(bytes) == 5..Len(bytes)

\* bytes with bit n of the byte at position i flipped
FlipBitOf(bytes, i, n) == [bytes EXCEPT ![i] = XorByte(@, 2 ^ n)]

InitCodec ==
    /\ fileExists = FALSE
    /\ disk = << >>
    /\ hist = << >>
    /\ junk = FALSE
    /\ opened = FALSE
    /\ map = EmptyMap
    /\ identity = NoIdentity
    /\ last = Call("none", NoKey, NoValue, "Ok", NoValue, FALSE)
    /\ appends = 0
    /\ faults = 0
    /\ codec = CodecIdle

\* the store is not touched by a use of the codec
StoreUnchanged ==
    UNCHANGED << fileExists, disk, opened, map, identity, last, hist, junk,
                 appends, faults >>

\* an input of the codec: the frame it came from and its bytes
CodecInput(origin, frame, bytes, at) ==
    [stage |-> "input", origin |-> origin, frame |-> frame, bytes |-> bytes,
     at |-> at, decoded |-> NoDecode, replayed |-> NoReplay]

\* Frame::new_set / Frame::new_delete, then serialize
Encode(operation, key, value, id) ==
    /\ codec.stage = "idle"
    /\ LET frame == IF operation = 1
                    THEN new_set(key, value, id[1], id[2])
                    ELSE new_delete(key, id[1], id[2])
       IN  codec' = CodecInput("encode", frame, serialize(frame), 0)
    /\ StoreUnchanged

\* one bit of an encoded frame is flipped after total_len
FlipBit(i, n) ==
    /\ codec.stage = "input"
    /\ codec.origin = "encode"
    /\ i \in BodyPositions(codec.bytes)
    /\ codec' = CodecInput("flip", codec.frame, FlipBitOf(codec.bytes, i, n), i)
    /\ StoreUnchanged

\* deserialize(total_len, frame_buf) on the input: total_len is its first 4
\* bytes and frame_buf the bytes after them
Decode(overflow_checks) ==
    /\ codec.stage = "input"
    /\ Len(codec.bytes) >= 4
    /\ codec' = [codec EXCEPT
                    !.stage = "decoded",
                    !.decoded = deserialize(FromLe32(Take(codec.bytes, 4)),
                                            Drop(codec.bytes, 4), overflow_checks)]
    /\ StoreUnchanged

\* a frame with a valid length and checksum whose operation and encoding
\* bytes and key bytes are whatever a writer put there
Craft(operation, encoding, key, value_bytes, id) ==
    /\ codec.stage = "idle"
    /\ LET frame == Frame(U32Of(0), id[1], id[2], operation, encoding, key,
                          value_bytes, U32Of(Len(key)), U32Of(Len(value_bytes)))
       IN  codec' = CodecInput("craft", frame, serialize(frame), 0)
    /\ StoreUnchanged

\* the key_len and value_len fields of an encoded frame are overwritten;
\* total_len and the number of bytes that follow it stay as they were
Forge(key_len, value_len) ==
    /\ codec.stage = "input"
    /\ codec.origin = "encode"
    /\ << key_len, value_len >> # << codec.frame.key_len, codec.frame.value_len >>
    /\ codec' = CodecInput("forge", codec.frame,
                           Take(codec.bytes, 8) \o Le32(key_len) \o Le32(value_len)
                           \o Drop(codec.bytes, 16), 0)
    /\ StoreUnchanged

\* build_kv_store on a log: the frames of CodecLogOps, then the input
ReplayLog(overflow_checks) ==
    /\ codec.stage = "input"
    /\ codec' = [codec EXCEPT
                    !.stage = "replayed",
                    !.replayed = build_kv_store(CodecLog \o codec.bytes, 0,
                                                overflow_checks)]
    /\ StoreUnchanged

NextCodec ==
    \/ \E key \in CodecKeys, value \in CodecValues, id \in CodecIdentities :
            Encode(1, key, value, id)
    \/ \E key \in CodecKeys, id \in CodecIdentities :
            Encode(2, key, NoValue, id)
    \/ \E i \in 5..24, n \in 0..7 : FlipBit(i, n)
    \/ \E operation \in CraftOperations, encoding \in CraftEncodings,
          key \in CraftKeys, value_bytes \in CraftValues :
            Craft(operation, encoding, key, value_bytes, MainIdentity)
    \/ \E key_len \in ForgedLens, value_len \in ForgedLens : Forge(key_len, value_len)
    \/ \E overflow_checks \in BOOLEAN : Decode(overflow_checks)
    \/ \E overflow_checks \in BOOLEAN : ReplayLog(overflow_checks)

SpecCodec == InitCodec /\ [][NextCodec]_vars

\* ------------------------------------------------------------------------
\* Vocabulary of the properties
\* ------------------------------------------------------------------------

\* a is a prefix of b
IsPrefix(a, b) == Len(a) <= Len(b) /\ a = Take(b, Len(a))

\* the position of the last mutation of key k in ops, 0 when there is none
LastIndex(ops, k) ==
    LET at == {i \in 1..Len(ops) : ops[i].key = k}
    IN  IF at = {} THEN 0 ELSE CHOOSE i \in at : \A j \in at : j <= i

\* the keys of ops whose last mutation is a Set
LiveKeys(ops) ==
    {k \in {ops[i].key : i \in 1..Len(ops)} : ops[LastIndex(ops, k)].operation = 1}

\* last-writer-wins: each live key with the value of its last Set
LastWriter(ops) == [k \in LiveKeys(ops) |-> ops[LastIndex(ops, k)].value]

\* the number of bytes the frames of ops take in the log
RECURSIVE OpsBytes(_)
OpsBytes(ops) ==
    IF ops = << >> THEN 0
    ELSE FrameBytes(Len(Head(ops).key), Len(Head(ops).value.bytes))
         + OpsBytes(Tail(ops))

\* a set or del call has just returned with status res
Mutated(res) ==
    /\ appends' = appends + 1
    /\ last'.op \in {"set", "del"}
    /\ last'.res = res

\* what a restart would rebuild from the log matches the in-memory map
Durable(bytes, m) == Replay(bytes).status = "Ok" /\ Replay(bytes).map = m

\* ------------------------------------------------------------------------
\* C1  Append-then-visible: on a store that open returned, whatever the log
\* held, after set/del calls that all returned Ok, get(k) returns the value
\* of the last set(k, v) not followed by del(k), and opening the log again
\* succeeds with exactly the in-memory map.  (Stated for the runs in which
\* no file operation fails.)
\* ------------------------------------------------------------------------
C1_AppendThenVisible ==
    opened =>
        /\ Durable(disk, map)
        /\ (last.op = "set" /\ last.res = "Ok" =>
                get(map, last.key) = [status |-> "Ok", value |-> last.value])
        /\ (last.op = "del" /\ last.res = "Ok" =>
                get(map, last.key).status = "NotFound")

\* ------------------------------------------------------------------------
\* C2  A failed append has no effect: set/del return IO, the map is
\* unchanged, and the log still rebuilds the in-memory map on reopening,
\* also when part of the frame was written.
\* ------------------------------------------------------------------------
C2_FailedAppendNoEffect ==
    [][Mutated("IO") =>
            /\ map' = map
            /\ (Durable(disk, map) => Durable(disk', map'))]_vars

\* ------------------------------------------------------------------------
\* C3  Last-writer-wins: replay applies the frames in the order of the log,
\* so a log of whole frames rebuilds, for every key, the value of its last
\* Set unless a Delete follows it; Set(k,v1), Set(k,v2), Delete(k),
\* Set(k,v3) gives get(k) = v3.
\* ------------------------------------------------------------------------
C3_LastWriterWins ==
    /\ ~junk => Durable(disk, LastWriter(hist))
    /\ (~junk /\ opened /\ last.op = "open") => map = LastWriter(hist)
    /\ (~junk /\ opened /\ hist = ExampleOps) =>
            get(map, KeyA) = [status |-> "Ok", value |-> V3]

C3_Witness ==
    /\ opened /\ ~junk /\ last.op = "get" /\ last.key = KeyA
    /\ hist = ExampleOps
    /\ last.out = V3

\* ------------------------------------------------------------------------
\* C4  Truncation safety: a log of whole frames followed by a frame cut off
\* after its 4-byte total_len (fewer body bytes than total_len declares)
\* makes replay, and so open, fail with CorruptLog in every build: no
\* panic, no read past the end of the file, no store.
\* ------------------------------------------------------------------------

\* the lengths at which SampleFrame is cut after its total_len field
TruncatedCuts == 4..(Len(SampleFrame) - 1)

\* the log is whole frames followed by a cut SampleFrame
TailIsTruncated ==
    /\ junk
    /\ Len(disk) - OpsBytes(hist) \in TruncatedCuts
    /\ Drop(disk, OpsBytes(hist)) = Take(SampleFrame, Len(disk) - OpsBytes(hist))

C4_TruncationSafety ==
    /\ (~junk /\ ~opened) =>
            \A n \in TruncatedCuts, overflow_checks \in BOOLEAN :
                build_kv_store(disk \o Take(SampleFrame, n), 0, overflow_checks).status
                    = "CorruptLog"
    /\ (TailIsTruncated /\ last.op = "open") =>
            (last.res = "CorruptLog" /\ ~opened /\ map = EmptyMap)

C4_Witness ==
    /\ TailIsTruncated
    /\ Len(hist) > 0
    /\ last.op = "open" /\ last.res = "CorruptLog"

\* ------------------------------------------------------------------------
\* C5  An error at any frame of the replay aborts the whole open: open
\* returns the error and no store, so no mapping decoded from the valid
\* frames before the bad one is exposed.
\* ------------------------------------------------------------------------
C5_NoPartialRecovery ==
    (last.op = "open" /\ last.res # "Ok") =>
        (~opened /\ map = EmptyMap /\ \A k \in Keys : get(map, k).status = "NotFound")

C5_Witness ==
    /\ last.op = "open" /\ last.res = "CorruptLog"
    /\ ~opened
    /\ Replay(disk).frames > 0
    /\ DOMAIN Replay(disk).map # {}

\* ------------------------------------------------------------------------
\* C6  del of an absent key makes no NotFound check: it appends one Delete
\* frame, returns Ok and leaves the map unchanged; deleting a key twice in a
\* row succeeds both times and appends two Delete frames, and replaying the
\* log leaves the key absent.
\* ------------------------------------------------------------------------
C6_DeleteAbsentKey ==
    [][(appends' = appends + 1 /\ last'.op = "del") =>
            /\ last'.res = "Ok"
            /\ disk' = disk \o serialize(new_delete(last'.key, identity[1], identity[2]))
            /\ hist' = Append(hist, DelOp(last'.key))
            /\ last'.key \notin DOMAIN map'
            /\ (last'.key \notin DOMAIN map => map' = map)
            /\ (~junk => Replay(disk').status = "Ok")
            /\ (Replay(disk').status = "Ok" =>
                    last'.key \notin DOMAIN Replay(disk').map)]_vars

C6_Witness ==
    /\ opened /\ ~junk
    /\ last.op = "del" /\ last.res = "Ok"
    /\ Len(hist) >= 2
    /\ hist[Len(hist)] = DelOp(last.key)
    /\ hist[Len(hist) - 1] = DelOp(last.key)
    /\ Len(disk) = OpsBytes(hist)

\* ------------------------------------------------------------------------
\* C7  Empty-log bootstrap: open on a path where no file exists creates an
\* empty log file and returns a store with an empty map, on which get of
\* any key fails with NotFound.
\* ------------------------------------------------------------------------
C7_EmptyLogBootstrap ==
    [][/\ (~fileExists /\ last'.op = "open") =>
            /\ last'.res = "Ok" /\ opened'
            /\ fileExists' /\ disk' = << >>
            /\ map' = EmptyMap
       /\ (fileExists' /\ disk' = << >> /\ last'.op = "get") =>
            (last'.res = "NotFound" /\ map' = EmptyMap)]_vars

C7_Witness ==
    /\ fileExists /\ disk = << >> /\ opened
    /\ hist = << >> /\ appends = 0
    /\ last.op = "get" /\ last.res = "NotFound"

\* ------------------------------------------------------------------------
\* C8  The log is strictly append-only: across every set or del call, Ok or
\* failed, the log before the call is a byte prefix of the log after it (no
\* byte rewritten or removed, the length never decreases), and each
\* successful set/del extends the log by exactly one encoded frame for that
\* mutation.  Stated for every step, so open, get and exit are covered too.
\* ------------------------------------------------------------------------
C8_AppendOnly ==
    [][/\ IsPrefix(disk, disk')
       /\ Len(disk') >= Len(disk)
       /\ (fileExists => fileExists')
       /\ Mutated("Ok") =>
            LET op == hist'[Len(hist')]
                added == Drop(disk', Len(disk))
                r == Replay(added)
            IN  /\ hist' = Append(hist, op)
                /\ op.key = last'.key
                /\ op.operation = (IF last'.op = "set" THEN 1 ELSE 2)
                /\ added = EncodeOp(op, identity)
                /\ Len(added) = FrameBytes(Len(op.key), Len(op.value.bytes))
                /\ r.status = "Ok" /\ r.frames = 1 /\ r.pos = Len(added)
       /\ Mutated("IO") => (Len(disk') - Len(disk) < Len(EncodeOp(
                                IF last'.op = "set" THEN SetOp(last'.key, last'.value)
                                ELSE DelOp(last'.key), identity)))]_vars

C8_Witness ==
    /\ opened /\ appends = 2 /\ faults = 1
    /\ last.op \in {"set", "del"} /\ last.res = "Ok"
    /\ Len(hist) > 0
    /\ Len(disk) > OpsBytes(hist) + 2

\* ------------------------------------------------------------------------
\* C9  No operation panics on bad input data: for every log file content,
\* including frames whose key_len and value_len make
\* 1+1+1+1+4+4+key_len+value_len+4 exceed the u32 range and frames declaring
\* total_len = 0 or a huge total_len, open returns a store or a typed error
\* (CorruptLog, Encoding or IO).
\* ------------------------------------------------------------------------
C9_NoPanicOnBadInput ==
    last.op = "open" => last.res \in {"Ok", "CorruptLog", "Encoding", "IO"}

\* ------------------------------------------------------------------------
\* C10  Error propagation: every failure of a file read or write during
\* open, set or del is returned to the caller as the IO error; none is
\* swallowed.
\* ------------------------------------------------------------------------
C10_IoErrorsSurfaced ==
    last.io => last.res = "IO"

\* ------------------------------------------------------------------------
\* C11  Codec round-trip: for every valid (operation, key, value, magic,
\* version), deserialize of the body that serialize produced, with the
\* total_len that serialize emitted, returns Ok with a frame equal in every
\* field to the one encoded: total_len is the emitted total_len, the other
\* fields are those of the frame built from the tuple, and the checksum
\* recomputed from the decoded frame is the stored one.
\* ------------------------------------------------------------------------

\* the total_len and the checksum an encoded frame carries
EmittedLen(bytes) == FromLe32(Take(bytes, 4))
StoredChecksum(bytes) == FromLe32(Drop(bytes, Len(bytes) - 4))

C11_CodecRoundTrip ==
    (codec.stage = "decoded" /\ codec.origin = "encode") =>
        /\ codec.decoded.status = "Ok"
        /\ codec.decoded.frame =
                [codec.frame EXCEPT !.total_len = EmittedLen(codec.bytes)]
        /\ NatOf(codec.decoded.frame.total_len) = Len(codec.bytes) - 4
        /\ compute_checksum(codec.decoded.frame) = StoredChecksum(codec.bytes)

C11_Witness ==
    /\ codec.stage = "decoded" /\ codec.origin = "encode"
    /\ codec.decoded.status = "Ok"
    /\ codec.decoded.frame.operation = 1
    /\ codec.decoded.frame.key_bytes = << 195, 169 >>
    /\ codec.decoded.frame.value_bytes = << 7, 0 >>
    /\ codec.decoded.frame.encoding = 1
    /\ codec.decoded.frame.magic = 0

\* ------------------------------------------------------------------------
\* C12  Checksum sensitivity: one flipped bit anywhere in a validly encoded
\* frame after its total_len (magic, version, operation, encoding, key_len,
\* value_len, key, value or stored checksum) makes deserialize fail with
\* CorruptLog: no other error, no panic, no success.
\* ------------------------------------------------------------------------
C12_ChecksumSensitivity ==
    (codec.stage = "decoded" /\ codec.origin = "flip") =>
        codec.decoded.status = "CorruptLog"

C12_Witness ==
    /\ codec.stage = "decoded" /\ codec.origin = "flip"
    /\ codec.at = 8
    /\ codec.frame.operation = 1
    /\ codec.decoded.status = "CorruptLog"
    /\ codec.decoded.stage = "checksum"

\* ------------------------------------------------------------------------
\* C13  Encoding error: replay of a Set frame with a valid length and
\* checksum whose encoding byte is not 0x00, 0x01 or 0x02 fails with
\* Encoding (not CorruptLog); Encoding is returned in no other situation;
\* the encoding byte of a Delete frame is ignored, so a Delete frame with
\* any encoding byte and a valid checksum is applied.
\* ------------------------------------------------------------------------

\* a crafted frame was replayed after the frames of CodecLogOps
CraftReplayed == codec.stage = "replayed" /\ codec.origin = "craft"

UnknownTag(frame) == frame.encoding \notin {0, 1, 2}

\* the frame was applied: replay went through all three frames
Applied == codec.replayed.status = "Ok" /\ codec.replayed.frames = Len(CodecLogOps) + 1

\* C13 as stated
C13_EncodingError ==
    CraftReplayed =>
        /\ (codec.frame.operation = 1 /\ UnknownTag(codec.frame))
                => codec.replayed.status = "Encoding"
        /\ codec.replayed.status = "Encoding"
                => (codec.frame.operation = 1 /\ UnknownTag(codec.frame))
        /\ codec.frame.operation = 2
                => (Applied /\ codec.frame.key_bytes \notin DOMAIN codec.replayed.map)

\* C13 amended: the same, for frames whose key bytes are well-formed UTF-8;
\* a frame whose key is not fails with CorruptLog whatever its encoding byte
C13_EncodingErrorUtf8Key ==
    CraftReplayed =>
        /\ (codec.frame.operation = 1 /\ UnknownTag(codec.frame)
            /\ from_utf8_ok(codec.frame.key_bytes))
                => codec.replayed.status = "Encoding"
        /\ codec.replayed.status = "Encoding"
                => (codec.frame.operation = 1 /\ UnknownTag(codec.frame))
        /\ (codec.frame.operation = 2 /\ from_utf8_ok(codec.frame.key_bytes))
                => (Applied /\ codec.frame.key_bytes \notin DOMAIN codec.replayed.map)
        /\ (codec.frame.operation \in {1, 2} /\ ~from_utf8_ok(codec.frame.key_bytes))
                => codec.replayed.status = "CorruptLog"

C13_Witness ==
    /\ CraftReplayed
    /\ codec.frame.operation = 1
    /\ codec.frame.encoding = 255
    /\ codec.frame.key_bytes = KeyA
    /\ codec.replayed.status = "Encoding"
    /\ codec.replayed.frames = Len(CodecLogOps)

\* ------------------------------------------------------------------------
\* C14  open never cross-checks the stored identity bytes: on one and the
\* same log file open returns the same outcome (the same map or the same
\* error) for every (magic, version) pair passed to it, also a pair that
\* differs from the one stored in the log's frames; a log holding frames
\* written under different pairs still replays to the last-writer-wins map.
\* ------------------------------------------------------------------------

\* the (magic, version) stored in the frame of the n-th mutation of the log
StoredIdentity(n) ==
    LET at == OpsBytes(SubSeq(hist, 1, n - 1))
    IN  << disk[at + 5], disk[at + 6] >>

\* the whole frames of the log were written under more than one pair
MixedLog ==
    /\ Len(hist) >= 2
    /\ Len(disk) >= OpsBytes(hist)
    /\ StoredIdentity(1) # StoredIdentity(Len(hist))

C14_IdentityNotChecked ==
    [][/\ (~opened /\ fileExists /\ last'.op = "open") =>
            /\ last'.res \in {build_kv_store(disk, 0, TRUE).status,
                              build_kv_store(disk, 0, FALSE).status}
            /\ opened' = (last'.res = "Ok")
            /\ opened' => (map' = Replay(disk).map /\ identity' \in OpenIdentities)
       /\ (~junk' /\ MixedLog') => Durable(disk', LastWriter(hist'))]_vars

C14_Witness ==
    /\ opened /\ ~junk
    /\ last.op = "open" /\ last.res = "Ok"
    /\ MixedLog
    /\ identity = MainIdentity
    /\ StoredIdentity(Len(hist)) = OtherIdentity
    /\ map = LastWriter(hist)
    /\ DOMAIN map # {}

\* ------------------------------------------------------------------------
\* C15  In-memory state is never ahead of durable state: in every state
\* reached by set/del calls, also after a failed append, the in-memory map
\* is the replay of a prefix of the frames present in the log, and a crash
\* followed by open never loses a mutation that was visible in memory: the
\* log replays, and to the in-memory binding of every key bound in memory.
\* ------------------------------------------------------------------------

\* m is what the first n of the whole frames ops replay to, for some n
ReplayOfPrefix(m, ops) ==
    \E n \in 0..Len(ops) : m = LastWriter(SubSeq(ops, 1, n))

\* an open after a crash that leaves the log as bytes gives back every
\* binding of m
SurvivesCrash(m, bytes) ==
    \A k \in DOMAIN m :
        /\ Replay(bytes).status = "Ok"
        /\ get(Replay(bytes).map, k) = get(m, k)

\* stated of every set/del call made when memory and log agree
C15_MemoryNeverAhead ==
    [][(opened /\ Durable(disk, map) /\ (Mutated("Ok") \/ Mutated("IO"))) =>
            /\ ReplayOfPrefix(map', hist')
            /\ SurvivesCrash(map', disk')]_vars

\* ------------------------------------------------------------------------
\* C16  Clean end-of-log: when replay stands at a frame boundary and fewer
\* than 4 bytes remain (0, 1, 2 or 3), it stops without error and open
\* returns the map built from all the frames before that point; only a
\* shortfall after a complete 4-byte total_len counts as corruption.
\* ------------------------------------------------------------------------

\* at most 3 bytes left after the last whole frame
ShortTails == {Take(t, n) : t \in {SampleFrame, HugeLenFrame}, n \in 0..3}

\* the log found at start-up is whole frames followed by 1 to 3 bytes
EndsInShortTail ==
    /\ junk /\ appends = 0
    /\ Len(disk) - OpsBytes(hist) \in 1..3

C16_CleanEndOfLog ==
    /\ (~junk /\ ~opened) =>
            \A overflow_checks \in BOOLEAN :
                /\ \A t \in ShortTails :
                        LET r == build_kv_store(disk \o t, 0, overflow_checks)
                        IN  /\ r.status = "Ok"
                            /\ r.map = LastWriter(hist)
                            /\ r.frames = Len(hist)
                            /\ r.pos = Len(disk)
                /\ build_kv_store(disk \o Take(SampleFrame, 4), 0,
                                  overflow_checks).status = "CorruptLog"
    /\ (EndsInShortTail /\ last.op = "open") =>
            (last.res = "Ok" /\ opened /\ map = LastWriter(hist))

C16_Witness ==
    /\ EndsInShortTail
    /\ Len(disk) - OpsBytes(hist) = 3
    /\ last.op = "open" /\ last.res = "Ok"
    /\ opened
    /\ map = LastWriter(hist)
    /\ DOMAIN map # {}

\* ------------------------------------------------------------------------
\* C17  Decode ordering: deserialize compares total_len with the length
\* expected from the parsed key_len and value_len, 12 + key_len + value_len
\* + 4, and fails with CorruptLog on a mismatch before it reads any key or
\* value byte; the checksum is read and verified only after the header, the
\* length check and both payload reads succeeded, so a frame with an invalid
\* declared length is never checksum-checked.
\* ------------------------------------------------------------------------

\* the key_len and value_len fields of the input
InputKeyLen == FromLe32(SubSeq(codec.bytes, 9, 12))
InputValueLen == FromLe32(SubSeq(codec.bytes, 13, 16))

\* total_len is not 12 + key_len + value_len + 4 (a sum that leaves the u32
\* range is no u32 at all)
LengthMismatch ==
    \/ FrameLen(InputKeyLen, InputValueLen).overflow
    \/ FrameLen(InputKeyLen, InputValueLen).sum # EmittedLen(codec.bytes)

C17_DecodeOrdering ==
    codec.stage = "decoded" =>
        /\ LengthMismatch =>
                /\ codec.decoded.status = "CorruptLog"
                /\ codec.decoded.stage = "length"
                /\ codec.decoded.payload = 0
                /\ ~codec.decoded.summed
        /\ codec.decoded.summed =>
                /\ ~LengthMismatch
                /\ codec.decoded.stage \in {"checksum", "done"}
                /\ codec.decoded.payload = NatOf(InputKeyLen) + NatOf(InputValueLen)

\* ------------------------------------------------------------------------
\* C18  Frame well-formedness: every frame that set or del appends has a
\* total_len field equal to 12 + key_len + value_len + 4, which is exactly
\* the number of bytes that follow the total_len field; key_len and
\* value_len are the actual payload lengths; operation is 0x01 for set and
\* 0x02 for del; a Delete frame has value_len = 0, no value bytes and the
\* encoding byte 0x00.
\* ------------------------------------------------------------------------

\* the fields of the frame whose bytes are b, read at their fixed offsets
WireTotalLen(b) == NatOf(FromLe32(SubSeq(b, 1, 4)))
WireOperation(b) == b[7]
WireEncoding(b) == b[8]
WireKeyLen(b) == NatOf(FromLe32(SubSeq(b, 9, 12)))
WireValueLen(b) == NatOf(FromLe32(SubSeq(b, 13, 16)))

C18_FrameWellFormed ==
    [][Mutated("Ok") =>
        LET b == Drop(disk', Len(disk))
        IN  /\ Len(b) >= 20
            /\ WireTotalLen(b) = 12 + WireKeyLen(b) + WireValueLen(b) + 4
            /\ WireTotalLen(b) = Len(b) - 4
            /\ WireKeyLen(b) = Len(last'.key)
            /\ SubSeq(b, 17, 16 + WireKeyLen(b)) = last'.key
            /\ last'.op = "set" =>
                    /\ WireOperation(b) = 1
                    /\ WireEncoding(b) = last'.value.encoding
                    /\ WireValueLen(b) = Len(last'.value.bytes)
                    /\ SubSeq(b, 17 + WireKeyLen(b), Len(b) - 4) = last'.value.bytes
            /\ last'.op = "del" =>
                    /\ WireOperation(b) = 2
                    /\ WireEncoding(b) = 0
                    /\ WireValueLen(b) = 0
                    /\ Len(b) = 4 + 12 + Len(last'.key) + 4]_vars

C18_Witness ==
    /\ opened /\ ~junk
    /\ appends = 2
    /\ last.op = "del" /\ last.res = "Ok"
    /\ Len(hist) >= 2
    /\ hist[Len(hist) - 1].operation = 1
    /\ hist[Len(hist)] = DelOp(last.key)
    /\ WireOperation(Drop(disk, OpsBytes(SubSeq(hist, 1, Len(hist) - 1)))) = 2

\* ------------------------------------------------------------------------
\* C19  Key independence: a successful set(k, v) or del(k) changes at most
\* the binding of k: for every other key the in-memory binding is unchanged
\* and the binding obtained by replaying the log after the call is the one
\* obtained by replaying it before the call.  get changes neither the map
\* nor the log.
\* ------------------------------------------------------------------------

\* what a replay of bytes gives for key k: the binding, or the error
ReplayBinding(bytes, k) ==
    IF Replay(bytes).status = "Ok" THEN get(Replay(bytes).map, k)
    ELSE [status |-> Replay(bytes).status, value |-> NoValue]

C19_KeyIndependence ==
    [][/\ Mutated("Ok") =>
            \A k \in Keys \ {last'.key} :
                /\ get(map', k) = get(map, k)
                /\ ReplayBinding(disk', k) = ReplayBinding(disk, k)
       /\ last'.op = "get" => (map' = map /\ disk' = disk /\ fileExists' = fileExists)]_vars

\* ------------------------------------------------------------------------
\* C20  Replay termination: for every finite log content, valid or corrupt,
\* the replay loop ends and returns either a map or an error (CorruptLog,
\* Encoding or IO), having consumed no more than the log holds; every
\* iteration that does not stop replay consumes at least the 4 length
\* bytes, so the position after n applied frames is at least 4 * n.
\* ------------------------------------------------------------------------

\* the loop made progress: it read within the log, and each frame it applied
\* moved it by the 4 length bytes or more
ReplayProgress(r, bytes) ==
    /\ r.pos <= Len(bytes)
    /\ r.pos >= 4 * r.frames

C20_ReplayTerminates ==
    codec.stage = "replayed" =>
        /\ codec.replayed.status \in {"Ok", "CorruptLog", "Encoding", "IO"}
        /\ ReplayProgress(codec.replayed, CodecLog \o codec.bytes)

====
